---- MODULE Spec2Model ----
(***************************************************************************)
(* Optimistic response reconciliation (useSessionResponse,                 *)
(* useGolfSessions) and the retrying request executor (apiRequest) of the  *)
(* Bellewood golf crew mobile client.                                      *)
(*                                                                         *)
(* Text that the code inspects character by character (error messages,     *)
(* notes) is a sequence of one-character strings.                          *)
(***************************************************************************)
EXTENDS Integers, Sequences, FiniteSets, TLC

VARIABLES
  attempt,        \* apiRequest: loop variable `attempt`
  lastError,      \* apiRequest: `lastError`
  lastResponse,   \* apiRequest: `lastResponse`
  rpc,            \* apiRequest: position in the loop body
  delays,         \* apiRequest: the delays passed to sleep(), in order
  attempts,       \* apiRequest: one record per fetch() made, in order
  outcome,        \* apiRequest: how the call ended
  responses,             \* session.responses held by useGolfSessions
  sessionsError,         \* useGolfSessions: `error`
  optimisticResponses,   \* useSessionResponse: `optimisticResponses`
  submittingResponse,    \* useSessionResponse: `submittingResponse`
  error,                 \* useSessionResponse: `error`
  ops,                   \* the calls of the three handlers, by call number
  timers,                \* pending setTimeout callbacks, per user
  event,                 \* the handler call that returned in the last step
  isUpdatingComment,     \* SessionCard: `isUpdatingComment`
  loading,               \* useGolfSessions: `loading`
  fetch                  \* the fetchSessions call that has not returned

varsRetry == <<attempt, lastError, lastResponse, rpc, delays, attempts, outcome>>

varsHook == <<responses, sessionsError, optimisticResponses,
              submittingResponse, error, ops, timers, event,
              isUpdatingComment, loading, fetch>>

varsFetch == <<loading, fetch>>

vars == <<varsRetry, varsHook>>

----------------------------------------------------------------------------
(* RETRY_CONFIG *)

maxRetries == 4
baseDelayMs == 1500
maxDelayMs == 15000
backoffMultiplier == 2

retryableErrors ==
  { <<"N","e","t","w","o","r","k"," ","r","e","q","u","e","s","t"," ","f","a","i","l","e","d">>,
    <<"f","e","t","c","h"," ","f","a","i","l","e","d">>,
    <<"t","i","m","e","o","u","t">>,
    <<"E","C","O","N","N","R","E","S","E","T">>,
    <<"E","T","I","M","E","D","O","U","T">>,
    <<"F","a","i","l","e","d"," ","t","o"," ","f","e","t","c","h">>,
    <<"N","e","t","w","o","r","k","E","r","r","o","r">>,
    <<"T","y","p","e","E","r","r","o","r",":"," ","f","e","t","c","h"," ","f","a","i","l","e","d">>,
    <<"T","y","p","e","E","r","r","o","r",":"," ","N","e","t","w","o","r","k"," ","r","e","q","u","e","s","t"," ","f","a","i","l","e","d">>,
    <<"L","o","a","d"," ","f","a","i","l","e","d">>,
    <<"C","o","n","n","e","c","t","i","o","n"," ","f","a","i","l","e","d">>,
    <<"R","e","q","u","e","s","t"," ","t","i","m","e","o","u","t">>,
    <<"S","e","r","v","i","c","e"," ","U","n","a","v","a","i","l","a","b","l","e">> }

----------------------------------------------------------------------------
(* Sample inputs of the request executor *)

msgNetworkRequestFailed == <<"N","e","t","w","o","r","k"," ","r","e","q","u","e","s","t"," ","f","a","i","l","e","d">>
msgUpperTimeout == <<"G","a","t","e","w","a","y"," ","T","I","M","E","O","U","T">>
msgAborted == <<"A","b","o","r","t","e","d">>
msgNotFound == <<"N","o","t"," ","f","o","u","n","d">>
msgRequestTimeout == <<"R","e","q","u","e","s","t"," ","T","i","m","e","o","u","t">>
msgUnknownError == <<"U","n","k","n","o","w","n"," ","e","r","r","o","r">>
msgJsonParse == <<"J","S","O","N"," ","P","a","r","s","e"," ","e","r","r","o","r">>
msgHttpPrefix == <<"H","T","T","P"," ">>

NoError == [thrown |-> FALSE]
NoResponse == [present |-> FALSE]

\* Messages of errors thrown by fetch() itself.
ThrownMessages == {msgNetworkRequestFailed, msgUpperTimeout, msgAborted}

\* Responses with response.ok = false: the status and the body, which is
\* unparsable, without an `error` field, or with one.
HttpErrors ==
  { [status |-> 404, parses |-> TRUE, error |-> msgNotFound],
    [status |-> 400, parses |-> TRUE, error |-> <<>>],
    [status |-> 408, parses |-> TRUE, error |-> msgRequestTimeout],
    [status |-> 500, parses |-> FALSE, error |-> <<>>],
    [status |-> 503, parses |-> TRUE, error |-> <<>>],
    [status |-> 504, parses |-> FALSE, error |-> <<>>],
    [status |-> 0, parses |-> TRUE, error |-> <<>>] }

\* Parsed bodies of successful responses.
DataValues == {"d1", "d2"}

----------------------------------------------------------------------------
(* String primitives *)

toLowerCaseChar(c) ==
  IF c = "A" THEN "a"
  ELSE IF c = "B" THEN "b"
  ELSE IF c = "C" THEN "c"
  ELSE IF c = "D" THEN "d"
  ELSE IF c = "E" THEN "e"
  ELSE IF c = "F" THEN "f"
  ELSE IF c = "G" THEN "g"
  ELSE IF c = "H" THEN "h"
  ELSE IF c = "I" THEN "i"
  ELSE IF c = "J" THEN "j"
  ELSE IF c = "K" THEN "k"
  ELSE IF c = "L" THEN "l"
  ELSE IF c = "M" THEN "m"
  ELSE IF c = "N" THEN "n"
  ELSE IF c = "O" THEN "o"
  ELSE IF c = "P" THEN "p"
  ELSE IF c = "Q" THEN "q"
  ELSE IF c = "R" THEN "r"
  ELSE IF c = "S" THEN "s"
  ELSE IF c = "T" THEN "t"
  ELSE IF c = "U" THEN "u"
  ELSE IF c = "V" THEN "v"
  ELSE IF c = "W" THEN "w"
  ELSE IF c = "X" THEN "x"
  ELSE IF c = "Y" THEN "y"
  ELSE IF c = "Z" THEN "z"
  ELSE c

toLowerCase(s) == [i \in 1..Len(s) |-> toLowerCaseChar(s[i])]

includes(s, sub) ==
  \E i \in 0..(Len(s) - Len(sub)) : SubSeq(s, i + 1, i + Len(sub)) = sub

digitChar(d) ==
  CASE d = 0 -> "0" [] d = 1 -> "1" [] d = 2 -> "2" [] d = 3 -> "3"
    [] d = 4 -> "4" [] d = 5 -> "5" [] d = 6 -> "6" [] d = 7 -> "7"
    [] d = 8 -> "8" [] d = 9 -> "9"

RECURSIVE numberToString(_)
numberToString(n) ==
  IF n < 10 THEN <<digitChar(n)>>
  ELSE Append(numberToString(n \div 10), digitChar(n % 10))

RECURSIVE pow(_, _)
pow(b, e) == IF e = 0 THEN 1 ELSE b * pow(b, e - 1)

min(a, b) == IF a < b THEN a ELSE b

----------------------------------------------------------------------------
(* isRetryableError, calculateDelay *)

\* Variant: the message is compared without lower-casing it.
isRetryableErrorCaseSensitive(err, response) ==
  LET hasRetryableMessage ==
        \E retryableError \in retryableErrors :
          includes(err.message, toLowerCase(retryableError))
      hasRetryableStatus ==
        /\ response.present
        /\ response.status \in {502, 503, 504, 0}
  IN hasRetryableMessage \/ hasRetryableStatus

\* Variant: every response that is not ok counts as a retryable status.
isRetryableErrorAnyStatus(err, response) ==
  LET hasRetryableMessage ==
        \E retryableError \in retryableErrors :
          includes(toLowerCase(err.message), toLowerCase(retryableError))
      hasRetryableStatus ==
        /\ response.present
        /\ ~(response.status >= 200 /\ response.status <= 299)
  IN hasRetryableMessage \/ hasRetryableStatus

isRetryableError(err, response) ==
  LET errorMessage == toLowerCase(err.message)
      hasRetryableMessage ==
        \E retryableError \in retryableErrors :
          includes(errorMessage, toLowerCase(retryableError))
      hasRetryableStatus ==
        /\ response.present
        /\ \/ response.status = 502
           \/ response.status = 503
           \/ response.status = 504
           \/ response.status = 0
  IN hasRetryableMessage \/ hasRetryableStatus

\* Variant: the delay grows linearly with the attempt index.
calculateDelayLinear(n) ==
  min(baseDelayMs * (n + 1), maxDelayMs)

\* Variant: the exponent is the attempt index instead of attempt - 1.
calculateDelayOffByOne(n) ==
  min(baseDelayMs * pow(backoffMultiplier, n + 1), maxDelayMs)

calculateDelay(n) ==
  min(baseDelayMs * pow(backoffMultiplier, n), maxDelayMs)

----------------------------------------------------------------------------
(* apiRequest *)

responseOk(status) == status >= 200 /\ status <= 299

\* new Error(errorData.error || `HTTP ${response.status}`), where errorData
\* is {error: 'Unknown error'} when the body does not parse.
httpErrorMessage(status, body) ==
  IF ~body.parses THEN msgUnknownError
  ELSE IF body.error # <<>> THEN body.error
  ELSE msgHttpPrefix \o numberToString(status)

InitRetry ==
  /\ attempt = 0
  /\ lastError = NoError
  /\ lastResponse = NoResponse
  /\ rpc = "fetch"
  /\ delays = <<>>
  /\ attempts = <<>>
  /\ outcome = [kind |-> "pending"]

\* for (...; attempt <= maxRetries; attempt++): the next iteration, which
\* starts with the backoff sleep.
nextIteration ==
  /\ attempt' = attempt + 1
  /\ rpc' = "sleep"
  /\ outcome' = outcome

\* `throw lastError` after the loop.
throwLastError(err) ==
  /\ attempt' = attempt
  /\ rpc' = "done"
  /\ outcome' = [kind |-> "threw", error |-> err]

\* Variant: the catch block keeps the first error it has seen.
catchBlockKeepsFirstError(err, response) ==
  LET kept == IF lastError.thrown THEN [message |-> lastError.message]
              ELSE err IN
  /\ lastError' = [thrown |-> TRUE, message |-> kept.message]
  /\ IF ~isRetryableError(err, response) \/ attempt = maxRetries
       THEN throwLastError(kept)
       ELSE nextIteration

\* The catch block: remember the error, then break or go around again.
catchBlock(err, response) ==
  /\ lastError' = [thrown |-> TRUE, message |-> err.message]
  /\ IF ~isRetryableError(err, response) \/ attempt = maxRetries
       THEN throwLastError(err)
       ELSE nextIteration

\* if (attempt > 0) { await sleep(calculateDelay(attempt - 1)) }
Sleep ==
  /\ rpc = "sleep"
  /\ UNCHANGED varsHook
  /\ attempt > 0
  /\ delays' = Append(delays, calculateDelay(attempt - 1))
  /\ rpc' = "fetch"
  /\ UNCHANGED <<attempt, lastError, lastResponse, attempts, outcome>>

\* fetch() rejects: control goes to the catch block with the lastResponse
\* of an earlier iteration, if any.
FetchThrows(m) ==
  /\ rpc = "fetch"
  /\ UNCHANGED varsHook
  /\ LET err == [message |-> m] IN
       /\ attempts' = Append(attempts,
            [kind |-> "throw", message |-> m, response |-> NoResponse,
             classifiedWith |-> lastResponse,
             retryable |-> isRetryableError(err, lastResponse)])
       /\ catchBlock(err, lastResponse)
  /\ UNCHANGED <<lastResponse, delays>>

\* fetch() resolves with response.ok = false.
FetchHttpError(status, body) ==
  /\ rpc = "fetch"
  /\ UNCHANGED varsHook
  /\ ~responseOk(status)
  /\ LET response == [present |-> TRUE, status |-> status]
         err == [message |-> httpErrorMessage(status, body)] IN
       /\ lastResponse' = response
       /\ attempts' = Append(attempts,
            [kind |-> "http", message |-> err.message, response |-> response,
             classifiedWith |-> response,
             retryable |-> isRetryableError(err, response)])
       /\ IF ~isRetryableError(err, response) \/ attempt = maxRetries
            THEN catchBlock(err, response)      \* throw error
            ELSE /\ lastError' = [thrown |-> TRUE, message |-> err.message]
                 /\ nextIteration                 \* continue
  /\ UNCHANGED delays

\* Variant: the parsed body is not returned and the loop goes on.
FetchOkFallsThrough(data) ==
  /\ rpc = "fetch"
  /\ UNCHANGED varsHook
  /\ LET response == [present |-> TRUE, status |-> 200] IN
       /\ lastResponse' = response
       /\ attempts' = Append(attempts,
            [kind |-> "ok", message |-> <<>>, response |-> response,
             classifiedWith |-> NoResponse, retryable |-> FALSE,
             data |-> data])
  /\ IF attempt = maxRetries
       THEN throwLastError([message |-> <<>>])
       ELSE nextIteration
  /\ UNCHANGED <<lastError, delays>>

\* fetch() resolves with response.ok = true and the body parses.
FetchOk(data) ==
  /\ rpc = "fetch"
  /\ UNCHANGED varsHook
  /\ LET response == [present |-> TRUE, status |-> 200] IN
       /\ lastResponse' = response
       /\ attempts' = Append(attempts,
            [kind |-> "ok", message |-> <<>>, response |-> response,
             classifiedWith |-> NoResponse, retryable |-> FALSE,
             data |-> data])
  /\ rpc' = "done"
  /\ outcome' = [kind |-> "returned", data |-> data]
  /\ UNCHANGED <<attempt, lastError, delays>>

\* fetch() resolves with response.ok = true and response.json() rejects.
FetchOkBadJson ==
  /\ rpc = "fetch"
  /\ UNCHANGED varsHook
  /\ LET response == [present |-> TRUE, status |-> 200]
         err == [message |-> msgJsonParse] IN
       /\ lastResponse' = response
       /\ attempts' = Append(attempts,
            [kind |-> "badjson", message |-> err.message,
             response |-> response, classifiedWith |-> response,
             retryable |-> isRetryableError(err, response)])
       /\ catchBlock(err, response)
  /\ UNCHANGED delays

NextRetry ==
  \/ Sleep
  \/ \E m \in ThrownMessages : FetchThrows(m)
  \/ \E e \in HttpErrors : FetchHttpError(e.status, e)
  \/ \E data \in DataValues : FetchOk(data)
  \/ FetchOkBadJson


----------------------------------------------------------------------------
(* useSessionResponse and useGolfSessions: values *)

\* Number of handler calls in one behaviour.
MaxOps == 2

Users == {"u1", "u2"}
Statuses == {"IN", "OUT", "UNDECIDED"}
Transports == {"WALKING", "RIDING"}

\* null and undefined.  A record that may be absent carries `present`; an
\* absent transport is "null"; an absent note is NullNote.
Null == [present |-> FALSE]
NullNote == <<"null">>

\* Notes typed by the user.
NoteInputs == {<<" ", "b", " ">>}

\* Messages of the errors of the network layer.
ErrorMessages == {"Network request failed"}

\* What a rejected promise carries: an Error with a message, or a value that
\* is not an Error.
Rejections ==
  {[isError |-> TRUE, message |-> m] : m \in ErrorMessages} \cup
  {[isError |-> FALSE, message |-> "undefined"]}

nickname(u) == IF u = "u1" THEN "Al" ELSE "Bo"

Response(id, u, status, note, transport) ==
  [present |-> TRUE, id |-> id, status |-> status, note |-> note,
   transport |-> transport, user |-> [id |-> u, nickname |-> nickname(u)]]

\* The responses of the session as first fetched: u1 has answered, with or
\* without a note and a transport; u2 has not.
FetchedResponses ==
  { <<Response(<<"response", "u1">>, "u1", "IN", <<"a">>, "RIDING")>>,
    <<Response(<<"response", "u1">>, "u1", "OUT", NullNote, "null")>> }

RECURSIVE trimStart(_)
trimStart(s) ==
  IF s # <<>> /\ Head(s) = " " THEN trimStart(Tail(s)) ELSE s

RECURSIVE trimEnd(_)
trimEnd(s) ==
  IF s # <<>> /\ s[Len(s)] = " " THEN trimEnd(SubSeq(s, 1, Len(s) - 1)) ELSE s

trim(s) == trimEnd(trimStart(s))

\* note || '' and transport || 'WALKING'
noteOrEmpty(r) == IF ~r.present \/ r.note = NullNote THEN <<>> ELSE r.note
transportOrWalking(r) ==
  IF ~r.present \/ r.transport = "null" THEN "WALKING" ELSE r.transport
\* Variant: a user without a response counts as IN.
statusOrIn(r) == IF ~r.present THEN "IN" ELSE r.status
statusOrUndecided(r) == IF ~r.present THEN "UNDECIDED" ELSE r.status

RECURSIVE filterOut(_, _)
\* responses.filter(r => r.user.id !== userId)
filterOut(rs, u) ==
  IF rs = <<>> THEN <<>>
  ELSE IF Head(rs).user.id # u THEN <<Head(rs)>> \o filterOut(Tail(rs), u)
  ELSE filterOut(Tail(rs), u)

\* golfUtils.findUserResponse
findUserResponse(rs, u) ==
  IF \E i \in 1..Len(rs) : rs[i].user.id = u
    THEN rs[CHOOSE i \in 1..Len(rs) :
              /\ rs[i].user.id = u
              /\ \A j \in 1..(i - 1) : rs[j].user.id # u]
    ELSE Null

\* Variant: the session's response wins over the optimistic entry.
getUserResponseServerFirst(userId) ==
  LET serverResponse == findUserResponse(responses, userId) IN
  IF serverResponse.present THEN serverResponse
  ELSE IF optimisticResponses[userId].present
    THEN [present |-> TRUE, id |-> <<"optimistic", userId>>,
          status |-> optimisticResponses[userId].status,
          note |-> optimisticResponses[userId].note,
          transport |-> optimisticResponses[userId].transport,
          user |-> [id |-> userId, nickname |-> ""]]
    ELSE Null

getUserResponse(userId) ==
  IF optimisticResponses[userId].present
    THEN LET serverResponse == findUserResponse(responses, userId) IN
         [present |-> TRUE,
          id |-> IF serverResponse.present THEN serverResponse.id
                 ELSE <<"optimistic", userId>>,
          status |-> optimisticResponses[userId].status,
          note |-> optimisticResponses[userId].note,
          transport |-> optimisticResponses[userId].transport,
          user |-> IF serverResponse.present THEN serverResponse.user
                   ELSE [id |-> userId, nickname |-> ""]]
    ELSE findUserResponse(responses, userId)

\* golfUtils.getResponseCounts
getResponseCounts(rs) ==
  LET count(status) ==
        Cardinality({k \in 1..Len(rs) : rs[k].status = status})
  IN [inCount |-> count("IN"), outCount |-> count("OUT"),
      undecidedCount |-> count("UNDECIDED"), total |-> Len(rs)]

\* session.responses.map(...): a response of a user with an optimistic
\* entry takes status, note and transport from the entry.
mapOptimistic(rs) ==
  [k \in 1..Len(rs) |->
     IF optimisticResponses[rs[k].user.id].present
       THEN [rs[k] EXCEPT
               !.status = optimisticResponses[rs[k].user.id].status,
               !.note = optimisticResponses[rs[k].user.id].note,
               !.transport = optimisticResponses[rs[k].user.id].transport]
       ELSE rs[k]]

RECURSIVE pushMocks(_, _)
\* Object.keys(optimisticResponses).forEach(...): a mock response is pushed
\* for each user with an entry and without a response in the session.
pushMocks(rs, userIds) ==
  IF userIds = {} THEN rs
  ELSE LET userId == CHOOSE x \in userIds : TRUE
           hasServerResponse ==
             \E k \in 1..Len(responses) : responses[k].user.id = userId
       IN pushMocks(
            IF hasServerResponse THEN rs
            ELSE Append(rs, [present |-> TRUE,
                             id |-> <<"optimistic", userId>>,
                             status |-> optimisticResponses[userId].status,
                             note |-> optimisticResponses[userId].note,
                             user |-> [id |-> userId, nickname |-> ""]]),
            userIds \ {userId})

\* Variant: users without a response in the session are not counted.
getResponseStatsNoMocks == getResponseCounts(mapOptimistic(responses))

getResponseStats ==
  getResponseCounts(
    pushMocks(mapOptimistic(responses),
              {u \in Users : optimisticResponses[u].present}))

\* { status, note, transport } as stored in optimisticResponses
Entry(status, note, transport) ==
  [present |-> TRUE, status |-> status, note |-> note, transport |-> transport]

\* setOptimisticResponses(prev => ({ ...prev, [userId]: entry }))
setOptimistic(userId, entry) ==
  optimisticResponses' = [optimisticResponses EXCEPT ![userId] = entry]

\* setOptimisticResponses(prev => { delete newState[userId] })
deleteOptimistic(userId) ==
  optimisticResponses' = [optimisticResponses EXCEPT ![userId] = Null]

\* The response sessionApi.submitResponse resolves with: the record the
\* backend stored for { status, note || null, transport || null }.
serverEcho(req) ==
  Response(<<"response", req.userId>>, req.userId, req.status,
           IF req.note = <<>> THEN NullNote ELSE req.note,
           req.transport)

\* The user of the device, the currentUserId of SessionCard.
currentUserId == "u1"

\* What a function without a return statement returns.
Undefined == [undefined |-> TRUE]

NoEvent == [type |-> "none"]
NoFetch == [pc |-> "idle"]
Unused == [pc |-> "unused"]
Returned == [pc |-> "returned"]

\* A promise continuation is queued: it runs before any other task.
continuationPending ==
  \E i \in 1..MaxOps : ops[i].pc \in {"resolved", "rejected"}

\* The call number of the next handler call.
canStart(i) ==
  /\ ~continuationPending
  /\ ops[i].pc = "unused"
  /\ \A j \in 1..(i - 1) : ops[j].pc # "unused"

InitHook ==
  /\ responses \in FetchedResponses
  /\ sessionsError = "null"
  /\ optimisticResponses = [u \in Users |-> Null]
  /\ submittingResponse = "null"
  /\ error = "null"
  /\ ops = [i \in 1..MaxOps |-> Unused]
  /\ timers = [u \in Users |-> 0]
  /\ event = NoEvent
  /\ isUpdatingComment = FALSE
  /\ loading = FALSE
  /\ fetch = NoFetch

----------------------------------------------------------------------------
(* useSessionResponse: the handlers up to their await *)

\* Variant: the toggle test reads the session's response, not the effective
\* one.
handleStatusClickServerToggle(i, userId, status) ==
  /\ canStart(i)
  /\ UNCHANGED <<varsRetry, varsFetch, isUpdatingComment>>
  /\ submittingResponse' = userId
  /\ error' = "null"
  /\ LET currentResponse == getUserResponse(userId)
         serverResponse == findUserResponse(responses, userId)
         note == noteOrEmpty(currentResponse)
         transport == transportOrWalking(currentResponse)
         shouldRemoveResponse ==
           serverResponse.present /\ serverResponse.status = status
     IN IF shouldRemoveResponse
          THEN /\ deleteOptimistic(userId)
               /\ ops' = [ops EXCEPT ![i] =
                    [pc |-> "awaiting", kind |-> "status", call |-> "delete",
                     arg |-> status,
                     userId |-> userId, currentResponse |-> currentResponse,
                     request |-> [userId |-> userId]]]
          ELSE /\ setOptimistic(userId, Entry(status, note, transport))
               /\ ops' = [ops EXCEPT ![i] =
                    [pc |-> "awaiting", kind |-> "status", call |-> "submit",
                     arg |-> status,
                     userId |-> userId, currentResponse |-> currentResponse,
                     request |-> [userId |-> userId, status |-> status,
                                  note |-> note, transport |-> transport]]]
  /\ event' = NoEvent
  /\ UNCHANGED <<responses, sessionsError, timers>>

\* Variant: the optimistic entry is written only when the call has settled.
handleStatusClickNoOptimistic(i, userId, status) ==
  /\ canStart(i)
  /\ UNCHANGED <<varsRetry, varsFetch, isUpdatingComment>>
  /\ submittingResponse' = userId
  /\ error' = "null"
  /\ LET currentResponse == getUserResponse(userId)
         note == noteOrEmpty(currentResponse)
         transport == transportOrWalking(currentResponse)
         shouldRemoveResponse ==
           currentResponse.present /\ currentResponse.status = status
     IN IF shouldRemoveResponse
          THEN /\ deleteOptimistic(userId)
               /\ ops' = [ops EXCEPT ![i] =
                    [pc |-> "awaiting", kind |-> "status", call |-> "delete",
                     arg |-> status,
                     userId |-> userId, currentResponse |-> currentResponse,
                     request |-> [userId |-> userId]]]
          ELSE /\ optimisticResponses' = optimisticResponses
               /\ ops' = [ops EXCEPT ![i] =
                    [pc |-> "awaiting", kind |-> "status", call |-> "submit",
                     arg |-> status,
                     userId |-> userId, currentResponse |-> currentResponse,
                     request |-> [userId |-> userId, status |-> status,
                                  note |-> note, transport |-> transport]]]
  /\ event' = NoEvent
  /\ UNCHANGED <<responses, sessionsError, timers>>

handleStatusClick(i, userId, status) ==
  /\ canStart(i)
  /\ UNCHANGED <<varsRetry, varsFetch, isUpdatingComment>>
  /\ submittingResponse' = userId
  /\ error' = "null"
  /\ LET currentResponse == getUserResponse(userId)
         note == noteOrEmpty(currentResponse)
         transport == transportOrWalking(currentResponse)
         shouldRemoveResponse ==
           currentResponse.present /\ currentResponse.status = status
     IN IF shouldRemoveResponse
          THEN /\ deleteOptimistic(userId)
               /\ ops' = [ops EXCEPT ![i] =
                    [pc |-> "awaiting", kind |-> "status", call |-> "delete",
                     arg |-> status,
                     userId |-> userId, currentResponse |-> currentResponse,
                     request |-> [userId |-> userId]]]
          ELSE /\ setOptimistic(userId, Entry(status, note, transport))
               /\ ops' = [ops EXCEPT ![i] =
                    [pc |-> "awaiting", kind |-> "status", call |-> "submit",
                     arg |-> status,
                     userId |-> userId, currentResponse |-> currentResponse,
                     request |-> [userId |-> userId, status |-> status,
                                  note |-> note, transport |-> transport]]]
  /\ event' = NoEvent
  /\ UNCHANGED <<responses, sessionsError, timers>>

\* Variant: the transport is not read from the current response.
handleNoteChangeDefaultTransport(i, userId, note) ==
  /\ canStart(i)
  /\ UNCHANGED <<varsRetry, varsFetch, isUpdatingComment>>
  /\ error' = "null"
  /\ LET currentResponse == getUserResponse(userId)
         status == statusOrUndecided(currentResponse)
         transport == "WALKING"
         trimmedNote == trim(note)
     IN /\ setOptimistic(userId, Entry(status, trimmedNote, transport))
        /\ ops' = [ops EXCEPT ![i] =
             [pc |-> "awaiting", kind |-> "note", call |-> "submit",
              arg |-> note,
              userId |-> userId, currentResponse |-> currentResponse,
              request |-> [userId |-> userId, status |-> status,
                           note |-> trimmedNote, transport |-> transport]]]
  /\ event' = NoEvent
  /\ UNCHANGED <<responses, sessionsError, submittingResponse, timers>>

handleNoteChange(i, userId, note) ==
  /\ canStart(i)
  /\ UNCHANGED <<varsRetry, varsFetch, isUpdatingComment>>
  /\ error' = "null"
  /\ LET currentResponse == getUserResponse(userId)
         status == statusOrUndecided(currentResponse)
         transport == transportOrWalking(currentResponse)
         trimmedNote == trim(note)
     IN /\ setOptimistic(userId, Entry(status, trimmedNote, transport))
        /\ ops' = [ops EXCEPT ![i] =
             [pc |-> "awaiting", kind |-> "note", call |-> "submit",
              arg |-> note,
              userId |-> userId, currentResponse |-> currentResponse,
              request |-> [userId |-> userId, status |-> status,
                           note |-> trimmedNote, transport |-> transport]]]
  /\ event' = NoEvent
  /\ UNCHANGED <<responses, sessionsError, submittingResponse, timers>>

handleTransportChange(i, userId, transport) ==
  /\ canStart(i)
  /\ UNCHANGED <<varsRetry, varsFetch, isUpdatingComment>>
  /\ error' = "null"
  /\ LET currentResponse == getUserResponse(userId)
         status == statusOrUndecided(currentResponse)
         note == noteOrEmpty(currentResponse)
     IN /\ setOptimistic(userId, Entry(status, note, transport))
        /\ ops' = [ops EXCEPT ![i] =
             [pc |-> "awaiting", kind |-> "transport", call |-> "submit",
              arg |-> transport,
              userId |-> userId, currentResponse |-> currentResponse,
              request |-> [userId |-> userId, status |-> status,
                           note |-> note, transport |-> transport]]]
  /\ event' = NoEvent
  /\ UNCHANGED <<responses, sessionsError, submittingResponse, timers>>

----------------------------------------------------------------------------
(* useGolfSessions: submitResponse and deleteResponse settle *)

\* Variant: the user's previous response is not removed before the new one
\* is added.
submitResponseSucceedsNoFilter(i) ==
  /\ ~continuationPending
  /\ UNCHANGED <<varsRetry, varsFetch, isUpdatingComment>>
  /\ ops[i].pc = "awaiting"
  /\ ops[i].call = "submit"
  /\ LET response == serverEcho(ops[i].request)
     IN /\ responses' = Append(responses, response)
        /\ ops' = [ops EXCEPT ![i] =
             [@ EXCEPT !.pc = "resolved"] @@
             [result |-> [success |-> TRUE, response |-> response]]]
  /\ event' = NoEvent
  /\ UNCHANGED <<sessionsError, optimisticResponses, submittingResponse,
                 error, timers>>

\* Variant: the response is returned and the session is left as it was.
submitResponseSucceedsNoMerge(i) ==
  /\ ~continuationPending
  /\ UNCHANGED <<varsRetry, varsFetch, isUpdatingComment>>
  /\ ops[i].pc = "awaiting"
  /\ ops[i].call = "submit"
  /\ LET response == serverEcho(ops[i].request)
     IN /\ responses' = responses
        /\ ops' = [ops EXCEPT ![i] =
             [@ EXCEPT !.pc = "resolved"] @@
             [result |-> [success |-> TRUE, response |-> response]]]
  /\ event' = NoEvent
  /\ UNCHANGED <<sessionsError, optimisticResponses, submittingResponse,
                 error, timers>>

\* sessionApi.submitResponse resolved: the response replaces the user's
\* response in the session, and { success: true, response } is returned.
submitResponseSucceeds(i) ==
  /\ ~continuationPending
  /\ UNCHANGED <<varsRetry, varsFetch, isUpdatingComment>>
  /\ ops[i].pc = "awaiting"
  /\ ops[i].call = "submit"
  /\ LET response == serverEcho(ops[i].request)
         filteredResponses == filterOut(responses, ops[i].request.userId)
     IN /\ responses' = Append(filteredResponses, response)
        /\ ops' = [ops EXCEPT ![i] =
             [@ EXCEPT !.pc = "resolved"] @@
             [result |-> [success |-> TRUE, response |-> response]]]
  /\ event' = NoEvent
  /\ UNCHANGED <<sessionsError, optimisticResponses, submittingResponse,
                 error, timers>>

\* Variant: the session is left as it was when the delete call resolves.
deleteResponseSucceedsKeeps(i) ==
  /\ ~continuationPending
  /\ UNCHANGED <<varsRetry, varsFetch, isUpdatingComment>>
  /\ ops[i].pc = "awaiting"
  /\ ops[i].call = "delete"
  /\ responses' = responses
  /\ ops' = [ops EXCEPT ![i] =
       [@ EXCEPT !.pc = "resolved"] @@ [result |-> [success |-> TRUE]]]
  /\ event' = NoEvent
  /\ UNCHANGED <<sessionsError, optimisticResponses, submittingResponse,
                 error, timers>>

\* Variant: every response of the session is removed when the delete call
\* resolves.
deleteResponseSucceedsAll(i) ==
  /\ ~continuationPending
  /\ UNCHANGED <<varsRetry, varsFetch, isUpdatingComment>>
  /\ ops[i].pc = "awaiting"
  /\ ops[i].call = "delete"
  /\ responses' = <<>>
  /\ ops' = [ops EXCEPT ![i] =
       [@ EXCEPT !.pc = "resolved"] @@ [result |-> [success |-> TRUE]]]
  /\ event' = NoEvent
  /\ UNCHANGED <<sessionsError, optimisticResponses, submittingResponse,
                 error, timers>>

\* sessionApi.deleteResponse resolved: the user's response is removed.
deleteResponseSucceeds(i) ==
  /\ ~continuationPending
  /\ UNCHANGED <<varsRetry, varsFetch, isUpdatingComment>>
  /\ ops[i].pc = "awaiting"
  /\ ops[i].call = "delete"
  /\ responses' = filterOut(responses, ops[i].request.userId)
  /\ ops' = [ops EXCEPT ![i] =
       [@ EXCEPT !.pc = "resolved"] @@ [result |-> [success |-> TRUE]]]
  /\ event' = NoEvent
  /\ UNCHANGED <<sessionsError, optimisticResponses, submittingResponse,
                 error, timers>>

\* sessionApi.submitResponse or sessionApi.deleteResponse rejected: the
\* catch block sets the sessions error and returns { success: false, error }.
mutationFails(i, message) ==
  /\ ~continuationPending
  /\ UNCHANGED <<varsRetry, varsFetch, isUpdatingComment>>
  /\ ops[i].pc = "awaiting"
  /\ sessionsError' = message
  /\ ops' = [ops EXCEPT ![i] =
       [@ EXCEPT !.pc = "resolved"] @@
       [result |-> [success |-> FALSE, error |-> message]]]
  /\ event' = NoEvent
  /\ UNCHANGED <<responses, optimisticResponses, submittingResponse, error,
                 timers>>

\* The submitResponse / deleteResponse passed to the hook rejects instead of
\* returning a result.
mutationRejects(i, err) ==
  /\ ~continuationPending
  /\ UNCHANGED <<varsRetry, varsFetch, isUpdatingComment>>
  /\ ops[i].pc = "awaiting"
  /\ ops' = [ops EXCEPT ![i] =
       [@ EXCEPT !.pc = "rejected"] @@ [err |-> err]]
  /\ event' = NoEvent
  /\ UNCHANGED <<responses, sessionsError, optimisticResponses,
                 submittingResponse, error, timers>>

----------------------------------------------------------------------------
(* useSessionResponse: the handlers after their await *)

\* The handler call i returns `result`.
return(i, result) ==
  /\ ops' = [ops EXCEPT ![i] = Returned]
  /\ event' = [type |-> "returned", op |-> i, kind |-> ops[i].kind,
               call |-> ops[i].call, userId |-> ops[i].userId,
               arg |-> ops[i].arg,
               currentResponse |-> ops[i].currentResponse,
               request |-> ops[i].request, settled |-> ops[i].pc,
               callSucceeded |-> (ops[i].pc = "resolved" /\
                                  ops[i].result.success),
               result |-> result]

\* The message the catch block of a handler uses for a value that is not an
\* Error.
defaultMessage(kind) ==
  CASE kind = "status" -> "Failed to update response"
    [] kind = "note" -> "Failed to update note"
    [] kind = "transport" -> "Failed to update transport"

\* err instanceof Error ? err.message : 'Failed to update ...'
messageOf(i) ==
  IF ops[i].err.isError THEN ops[i].err.message
                        ELSE defaultMessage(ops[i].kind)

\* Variant: the catch block sets the error, deletes the optimistic entry and
\* throws the error again.
catchErrRethrows(i) ==
  /\ error' = messageOf(i)
  /\ deleteOptimistic(ops[i].userId)
  /\ ops' = [ops EXCEPT ![i] = Returned]
  /\ event' = [type |-> "raised", op |-> i, kind |-> ops[i].kind,
               call |-> ops[i].call, userId |-> ops[i].userId,
               settled |-> ops[i].pc, err |-> ops[i].err]

\* catch (err) of the three handlers: set the error, delete the optimistic
\* entry and return { success: false, error: message }.
catchErr(i) ==
  LET message == messageOf(i) IN
  /\ error' = message
  /\ deleteOptimistic(ops[i].userId)
  /\ return(i, [success |-> FALSE, error |-> message])

\* Variant: the submitting mark is cleared at the end of the try block, not
\* in a finally block.
handleStatusClickResumesNoFinally(i) ==
  /\ UNCHANGED <<varsRetry, varsFetch, isUpdatingComment>>
  /\ ops[i].pc \in {"resolved", "rejected"}
  /\ ops[i].kind = "status"
  /\ LET userId == ops[i].userId
         currentResponse == ops[i].currentResponse
     IN IF ops[i].pc = "rejected"
          THEN /\ catchErr(i)
               /\ submittingResponse' = submittingResponse
          ELSE /\ error' = error
               /\ return(i, ops[i].result)
               /\ submittingResponse' = "null"
               /\ IF ops[i].call = "delete"
                    THEN IF ops[i].result.success
                           THEN optimisticResponses' = optimisticResponses
                           ELSE setOptimistic(userId,
                                  Entry(currentResponse.status,
                                        noteOrEmpty(currentResponse), "null"))
                    ELSE deleteOptimistic(userId)
  /\ UNCHANGED <<responses, sessionsError, timers>>

handleStatusClickResumes(i) ==
  /\ UNCHANGED <<varsRetry, varsFetch, isUpdatingComment>>
  /\ ops[i].pc \in {"resolved", "rejected"}
  /\ ops[i].kind = "status"
  /\ LET userId == ops[i].userId
         currentResponse == ops[i].currentResponse
     IN IF ops[i].pc = "rejected"
          THEN catchErr(i)
          ELSE /\ error' = error
               /\ return(i, ops[i].result)
               /\ IF ops[i].call = "delete"
                    THEN IF ops[i].result.success
                           THEN optimisticResponses' = optimisticResponses
                           ELSE setOptimistic(userId,
                                  Entry(currentResponse.status,
                                        noteOrEmpty(currentResponse), "null"))
                    ELSE deleteOptimistic(userId)
  /\ submittingResponse' = "null"        \* finally
  /\ UNCHANGED <<responses, sessionsError, timers>>

handleNoteChangeResumes(i) ==
  /\ UNCHANGED <<varsRetry, varsFetch, isUpdatingComment>>
  /\ ops[i].pc \in {"resolved", "rejected"}
  /\ ops[i].kind = "note"
  /\ IF ops[i].pc = "rejected"
       THEN catchErr(i)
       ELSE /\ error' = error
            /\ return(i, ops[i].result)
            /\ IF ops[i].result.success
                 THEN deleteOptimistic(ops[i].userId)
                 ELSE optimisticResponses' = optimisticResponses
  /\ UNCHANGED <<responses, sessionsError, submittingResponse, timers>>

handleTransportChangeResumes(i) ==
  /\ UNCHANGED <<varsRetry, varsFetch, isUpdatingComment>>
  /\ ops[i].pc \in {"resolved", "rejected"}
  /\ ops[i].kind = "transport"
  /\ IF ops[i].pc = "rejected"
       THEN /\ catchErr(i)
            /\ timers' = timers
       ELSE /\ error' = error
            /\ return(i, ops[i].result)
            /\ IF ops[i].result.success
                 THEN /\ optimisticResponses' = optimisticResponses
                      /\ timers' = [timers EXCEPT ![ops[i].userId] = @ + 1]
                 ELSE /\ deleteOptimistic(ops[i].userId)
                      /\ timers' = timers
  /\ UNCHANGED <<responses, sessionsError, submittingResponse>>

----------------------------------------------------------------------------
(* SessionCard: the comment field of the current user *)

\* comment.trim() || undefined
trimOrUndefined(comment) ==
  IF trim(comment) = <<>> THEN NullNote ELSE trim(comment)

\* The Save button of the comment field is pressed; the button is disabled
\* while isUpdatingComment or while the current user has no status.  The
\* request has a userId, a status and a note, and no transport.
handleSaveComment(i, comment) ==
  /\ canStart(i)
  /\ UNCHANGED <<varsRetry, varsFetch>>
  /\ ~isUpdatingComment
  /\ LET currentUserResponse == getUserResponse(currentUserId)
     IN /\ currentUserResponse.present
        /\ ops' = [ops EXCEPT ![i] =
             [pc |-> "awaiting", kind |-> "comment", call |-> "submit",
              arg |-> comment,
              userId |-> currentUserId,
              currentResponse |-> currentUserResponse,
              request |-> [userId |-> currentUserId,
                           status |-> currentUserResponse.status,
                           note |-> trimOrUndefined(comment),
                           transport |-> "null"]]]
  /\ isUpdatingComment' = TRUE
  /\ event' = NoEvent
  /\ UNCHANGED <<responses, sessionsError, optimisticResponses,
                 submittingResponse, error, timers>>

\* handleSaveComment after its await: onResponseUpdate and the alerts change
\* nothing; finally clears isUpdatingComment; nothing is returned.
handleSaveCommentResumes(i) ==
  /\ UNCHANGED <<varsRetry, varsFetch>>
  /\ ops[i].pc \in {"resolved", "rejected"}
  /\ ops[i].kind = "comment"
  /\ return(i, Undefined)
  /\ isUpdatingComment' = FALSE
  /\ UNCHANGED <<responses, sessionsError, optimisticResponses,
                 submittingResponse, error, timers>>

----------------------------------------------------------------------------
(* useSessionResponse: the settle delay of handleTransportChange *)

\* The callback given to setTimeout(..., 100) in handleTransportChange.
settleTimerFires(userId) ==
  /\ ~continuationPending
  /\ UNCHANGED <<varsRetry, varsFetch, isUpdatingComment>>
  /\ timers[userId] > 0
  /\ timers' = [timers EXCEPT ![userId] = @ - 1]
  /\ deleteOptimistic(userId)
  /\ event' = NoEvent
  /\ UNCHANGED <<responses, sessionsError, submittingResponse, error, ops>>

----------------------------------------------------------------------------
(* useGolfSessions: fetchSessions *)

\* fetchSessions up to its await.  sessionApi.getAll reads the responses of
\* the session at the start of its requests, so its result is the data the
\* server holds when the call is made.
fetchSessions ==
  /\ ~continuationPending
  /\ UNCHANGED varsRetry
  /\ fetch.pc = "idle"
  /\ loading' = TRUE
  /\ sessionsError' = "null"
  /\ fetch' = [pc |-> "awaiting", data |-> responses]
  /\ event' = NoEvent
  /\ UNCHANGED <<responses, optimisticResponses, submittingResponse, error,
                 ops, timers, isUpdatingComment>>

\* sessionApi.getAll resolved: setSessions(data), then finally.
fetchSessionsResolves ==
  /\ ~continuationPending
  /\ UNCHANGED varsRetry
  /\ fetch.pc = "awaiting"
  /\ responses' = fetch.data
  /\ loading' = FALSE
  /\ fetch' = NoFetch
  /\ event' = NoEvent
  /\ UNCHANGED <<sessionsError, optimisticResponses, submittingResponse,
                 error, ops, timers, isUpdatingComment>>

\* sessionApi.getAll rejected: the catch block sets the error, then finally.
fetchSessionsRejects(message) ==
  /\ ~continuationPending
  /\ UNCHANGED varsRetry
  /\ fetch.pc = "awaiting"
  /\ sessionsError' = message
  /\ loading' = FALSE
  /\ fetch' = NoFetch
  /\ event' = NoEvent
  /\ UNCHANGED <<responses, optimisticResponses, submittingResponse, error,
                 ops, timers, isUpdatingComment>>

----------------------------------------------------------------------------

Next ==
  \/ \E i \in 1..MaxOps, u \in Users, status \in Statuses :
       handleStatusClick(i, u, status)
  \/ \E i \in 1..MaxOps, u \in Users, note \in NoteInputs :
       handleNoteChange(i, u, note)
  \/ \E i \in 1..MaxOps, u \in Users, transport \in Transports :
       handleTransportChange(i, u, transport)
  \/ \E i \in 1..MaxOps : submitResponseSucceeds(i)
  \/ \E i \in 1..MaxOps : deleteResponseSucceeds(i)
  \/ \E i \in 1..MaxOps, message \in ErrorMessages : mutationFails(i, message)
  \/ \E i \in 1..MaxOps, err \in Rejections : mutationRejects(i, err)
  \/ \E i \in 1..MaxOps : handleStatusClickResumes(i)
  \/ \E i \in 1..MaxOps : handleNoteChangeResumes(i)
  \/ \E i \in 1..MaxOps : handleTransportChangeResumes(i)
  \/ \E i \in 1..MaxOps, comment \in NoteInputs : handleSaveComment(i, comment)
  \/ \E i \in 1..MaxOps : handleSaveCommentResumes(i)
  \/ \E u \in Users : settleTimerFires(u)

\* The hooks before the first fetch of the sessions: no session is shown.
InitNoSession ==
  /\ responses = <<>>
  /\ sessionsError = "null"
  /\ optimisticResponses = [u \in Users |-> Null]
  /\ submittingResponse = "null"
  /\ error = "null"
  /\ ops = [i \in 1..MaxOps |-> Unused]
  /\ timers = [u \in Users |-> 0]
  /\ event = NoEvent
  /\ isUpdatingComment = FALSE
  /\ loading = FALSE
  /\ fetch = NoFetch

Init == InitRetry /\ InitHook

Spec == Init /\ [][Next]_vars

\* Status clicks that the server confirms, and refreshes of the sessions.
NextRefresh ==
  \/ \E i \in 1..MaxOps, u \in Users, status \in Statuses :
       handleStatusClick(i, u, status)
  \/ \E i \in 1..MaxOps : submitResponseSucceeds(i)
  \/ \E i \in 1..MaxOps : deleteResponseSucceeds(i)
  \/ \E i \in 1..MaxOps : handleStatusClickResumes(i)
  \/ fetchSessions
  \/ fetchSessionsResolves
  \/ \E message \in ErrorMessages : fetchSessionsRejects(message)

SpecRefresh == Init /\ [][NextRefresh]_vars

InitIdle == InitRetry /\ InitNoSession

SpecRetry == InitIdle /\ [][NextRetry]_vars

----------------------------------------------------------------------------
(* Properties of the request executor *)

\* msg contains sig at some position, letter case ignored.
ContainsIgnoringCase(msg, sig) ==
  \E i \in 1..(Len(msg) - Len(sig) + 1) :
    \A k \in 1..Len(sig) :
      toLowerCaseChar(msg[i + k - 1]) = toLowerCaseChar(sig[k])

MatchesSignature(msg) ==
  \E sig \in retryableErrors : ContainsIgnoringCase(msg, sig)

RetryableStatuses == {502, 503, 504, 0}

\* The attempt failed, and its own error and its own HTTP status (if it got
\* a response) make it transient.
TransientFailure(a) ==
  /\ a.kind # "ok"
  /\ \/ MatchesSignature(a.message)
     \/ a.response.present /\ a.response.status \in RetryableStatuses

AllTransient == \A i \in 1..Len(attempts) : TransientFailure(attempts[i])

ClientError(a) ==
  a.kind = "http" /\ a.response.status >= 400 /\ a.response.status <= 499

\* C2: while every attempt fails with a transient error the call stays
\* pending through attempts 1..4, and the 5th failure ends it: exactly 5
\* attempts, the delays 1500, 3000, 6000, 12000 (22500 ms) and then the throw.
C2_RetryBound ==
  AllTransient =>
    /\ Len(attempts) <= maxRetries + 1
    /\ outcome.kind # "returned"
    /\ Len(attempts) < maxRetries + 1 => outcome.kind = "pending"
    /\ Len(attempts) = maxRetries + 1 =>
         /\ outcome.kind = "threw"
         /\ delays = <<1500, 3000, 6000, 12000>>
         /\ delays[1] + delays[2] + delays[3] + delays[4] = 22500
    /\ outcome.kind = "threw" => Len(attempts) = maxRetries + 1

C2_Witness ==
  /\ AllTransient
  /\ Len(attempts) = 5
  /\ outcome.kind = "threw"

\* C3 as stated: a first attempt answered with a 4xx status is classified
\* non-retryable whatever its message and is the only attempt.
C3_AnyClientErrorFailsFast ==
  (Len(attempts) >= 1 /\ ClientError(attempts[1])) =>
    /\ ~attempts[1].retryable
    /\ Len(attempts) = 1
    /\ delays = <<>>
    /\ outcome.kind = "threw"

\* C3 amended: a first attempt answered with a 4xx status whose error
\* message contains no allow-listed signature is classified non-retryable and
\* is the only attempt: the error is thrown with no delay and no retry.
C3_ClientErrorFailsFast ==
  (/\ Len(attempts) >= 1
   /\ ClientError(attempts[1])
   /\ ~MatchesSignature(attempts[1].message)) =>
    /\ ~attempts[1].retryable
    /\ Len(attempts) = 1
    /\ delays = <<>>
    /\ outcome = [kind |-> "threw",
                  error |-> [message |-> attempts[1].message]]

C3_Witness ==
  /\ Len(attempts) = 1
  /\ ClientError(attempts[1])
  /\ attempts[1].response.status = 404
  /\ outcome.kind = "threw"

\* C4: each verdict of isRetryableError is TRUE exactly when the message
\* contains an allow-listed signature, case ignored, or the response it was
\* given is present with status 502, 503, 504 or 0.
C4_ClassifierExact ==
  \A i \in 1..Len(attempts) :
    attempts[i].kind # "ok" =>
      (attempts[i].retryable <=>
         \/ MatchesSignature(attempts[i].message)
         \/ /\ attempts[i].classifiedWith.present
            /\ attempts[i].classifiedWith.status \in RetryableStatuses)

C4_Witness ==
  \E i, j, k \in 1..Len(attempts) :
    /\ attempts[i].message = msgUpperTimeout /\ attempts[i].retryable
    /\ attempts[j].response.present /\ attempts[j].response.status = 0
    /\ attempts[j].retryable
    /\ attempts[k].message = msgNotFound /\ ~attempts[k].retryable

\* C5: an attempt that succeeds is the last one, and the call returns that
\* attempt's parsed body and throws nothing.
C5_SuccessReturns ==
  \A i \in 1..Len(attempts) :
    attempts[i].kind = "ok" =>
      /\ i = Len(attempts)
      /\ i <= maxRetries + 1
      /\ rpc = "done"
      /\ outcome = [kind |-> "returned", data |-> attempts[i].data]

C5_Witness ==
  /\ Len(attempts) = 5
  /\ \A i \in 1..4 : TransientFailure(attempts[i])
  /\ attempts[5].kind = "ok"
  /\ outcome.kind = "returned"

\* C18 as stated: a failed attempt whose own error and own HTTP status are
\* not retryable is the last attempt, whatever the earlier attempts were, and
\* its error is the one thrown.
C18_OwnFailureDecides ==
  \A i \in 1..Len(attempts) :
    (attempts[i].kind # "ok" /\ ~TransientFailure(attempts[i])) =>
      /\ i = Len(attempts)
      /\ outcome = [kind |-> "threw",
                    error |-> [message |-> attempts[i].message]]

\* The delay before attempt k >= 1, written out.
ExpectedDelay(k) ==
  CASE k = 1 -> 1500 [] k = 2 -> 3000 [] k = 3 -> 6000 [] k = 4 -> 12000
    [] OTHER -> 15000

\* C19: no sleep precedes attempt 0, exactly one sleep precedes each later
\* attempt, the sleep before attempt k lasts min(1500 * 2^(k-1), 15000) ms
\* whatever the errors were, and no sleep exceeds maxDelayMs.
C19_BackoffSchedule ==
  /\ Len(delays) <= maxRetries
  /\ rpc = "fetch" => Len(delays) = Len(attempts)
  /\ rpc = "sleep" => Len(delays) = Len(attempts) - 1
  /\ rpc = "done" => Len(delays) = Len(attempts) - 1
  /\ \A k \in 1..Len(delays) :
       /\ delays[k] = ExpectedDelay(k)
       /\ delays[k] = min(baseDelayMs * pow(backoffMultiplier, k - 1),
                          maxDelayMs)
       /\ delays[k] <= maxDelayMs

C19_Witness ==
  /\ Len(delays) = 4
  /\ delays[4] = 12000
  /\ \E i, j \in 1..Len(attempts) :
       /\ attempts[i].kind = "throw"
       /\ attempts[j].kind = "http"

----------------------------------------------------------------------------
(* Properties of the optimistic responses *)

\* The records the session holds for user u.
RepositoryRecords(u) ==
  {responses[k] : k \in {k \in 1..Len(responses) : responses[k].user.id = u}}

\* null and '' are the same note.
NoteText(r) == IF r.present /\ r.note # NullNote THEN r.note ELSE <<>>

\* An absent transport.
TransportOf(r) == IF r.present THEN r.transport ELSE "null"

InFlight(i) == ops[i].pc \in {"awaiting", "resolved", "rejected"}

\* C1: getUserResponse(u) takes status, note and transport from u's
\* optimistic entry when there is one, with id and user of the session's
\* record for u if it has one and a synthesized id and user if not; without
\* an entry it is the session's record for u, or null.
C1_EffectiveResponse ==
  \A u \in Users :
    LET g == getUserResponse(u)
        e == optimisticResponses[u]
        recs == RepositoryRecords(u)
    IN /\ Cardinality(recs) <= 1
       /\ e.present =>
            /\ g.present
            /\ g.status = e.status /\ g.note = e.note
            /\ g.transport = e.transport
            /\ \A r \in recs : g.id = r.id /\ g.user = r.user
            /\ recs = {} =>
                 /\ g.id = <<"optimistic", u>>
                 /\ g.user = [id |-> u, nickname |-> ""]
       /\ ~e.present =>
            /\ \A r \in recs : g = r
            /\ recs = {} => g = Null

C1_Witness ==
  /\ \E u \in Users :
       /\ optimisticResponses[u].present
       /\ \E r \in RepositoryRecords(u) :
            /\ r.status # optimisticResponses[u].status
            /\ getUserResponse(u).status = optimisticResponses[u].status
            /\ getUserResponse(u).id = r.id
  /\ \E u \in Users :
       /\ optimisticResponses[u].present
       /\ RepositoryRecords(u) = {}

\* handleStatusClick(u, 'IN') for a user without a response is waiting for
\* its submit call.
FirstInAwaiting(o) ==
  /\ o.pc = "awaiting"
  /\ o.kind = "status" /\ o.call = "submit" /\ o.arg = "IN"
  /\ ~o.currentResponse.present

ShowsInWalking(u) ==
  /\ getUserResponse(u).present
  /\ getUserResponse(u).status = "IN"
  /\ getUserResponse(u).transport = "WALKING"

\* C6 as stated: at every state in which such a call is waiting for its
\* submit call, getUserResponse(u) shows IN and WALKING.
C6_ShownUntilResolved ==
  \A i \in 1..MaxOps :
    FirstInAwaiting(ops[i]) => ShowsInWalking(ops[i].userId)

\* The user of a handler call that has started and not returned.
OpUser(o) == IF o.pc \in {"unused", "returned"} THEN "none" ELSE o.userId

\* The step belongs to another edit of user u than call i: its optimistic
\* step, its settling, or the settle timer of an earlier transport change.
OtherEditStep(i, u) ==
  \/ timers'[u] # timers[u]
  \/ \E j \in 1..MaxOps :
       /\ j # i
       /\ ops'[j] # ops[j]
       /\ (OpUser(ops[j]) = u \/ OpUser(ops'[j]) = u)

\* C6 amended: the optimistic step of handleStatusClick(u, 'IN') for a user
\* without a response makes getUserResponse(u) show IN and WALKING before
\* the submit call settles, and every step taken while the call is waiting
\* keeps it so, except the steps of another edit of the same user.
C6_ShownWhileUndisturbed ==
  [][\A i \in 1..MaxOps, u \in Users :
       (FirstInAwaiting(ops'[i]) /\ ops'[i].userId = u) =>
         /\ ops[i].pc = "unused" => ShowsInWalking(u)'
         /\ (/\ ops[i].pc = "awaiting"
             /\ ShowsInWalking(u)
             /\ ~OtherEditStep(i, u)) => ShowsInWalking(u)']_vars

C6_Witness ==
  \E i, j \in 1..MaxOps :
    /\ i # j
    /\ FirstInAwaiting(ops[i])
    /\ ShowsInWalking(ops[i].userId)
    /\ InFlight(j) /\ ops[j].userId # ops[i].userId

\* C7: when handleStatusClick(u, 'IN') took the submit path and the submit
\* succeeded, then as the call returns getUserResponse(u).status is IN, the
\* session holds the returned response for u, and u has no optimistic entry.
C7_RoundTrip ==
  (/\ event.type = "returned"
   /\ event.kind = "status" /\ event.call = "submit" /\ event.arg = "IN"
   /\ event.result.success
   /\ \A j \in 1..MaxOps : InFlight(j) => ops[j].userId # event.userId) =>
    /\ getUserResponse(event.userId).present
    /\ getUserResponse(event.userId).status = "IN"
    /\ RepositoryRecords(event.userId) = {event.result.response}
    /\ event.result.response.status = "IN"
    /\ ~optimisticResponses[event.userId].present

C7_Witness ==
  /\ event.type = "returned"
  /\ event.kind = "status" /\ event.call = "submit" /\ event.arg = "IN"
  /\ event.result.success
  /\ event.currentResponse.present
  /\ event.currentResponse.status = "OUT"
  /\ \A j \in 1..MaxOps : ~InFlight(j)

\* C8: a handleStatusClick(u, s) made while getUserResponse(u).status = s
\* deletes u's optimistic entry and issues one delete call and no submit
\* call; when that delete has succeeded the session holds no response for u.
C8_ToggleOff ==
  [][\A i \in 1..MaxOps :
       /\ (/\ ops[i].pc = "unused"
           /\ ops'[i].pc = "awaiting"
           /\ ops'[i].kind = "status"
           /\ getUserResponse(ops'[i].userId).present
           /\ getUserResponse(ops'[i].userId).status = ops'[i].arg) =>
            /\ ops'[i].call = "delete"
            /\ ops'[i].request = [userId |-> ops'[i].userId]
            /\ ~optimisticResponses'[ops'[i].userId].present
            /\ \A j \in 1..MaxOps : j # i => ops'[j] = ops[j]
       /\ (/\ ops[i].pc = "awaiting"
           /\ ops[i].call = "delete"
           /\ ops'[i].pc = "resolved"
           /\ ops'[i].result.success) =>
            findUserResponse(responses', ops[i].userId) = Null]_vars

C8_Witness ==
  \E i, j \in 1..MaxOps :
    /\ i < j
    /\ ops[i].pc = "awaiting" /\ ops[i].kind = "status"
    /\ ops[i].call = "submit" /\ ops[i].arg = "IN"
    /\ ops[j].pc = "resolved" /\ ops[j].kind = "status"
    /\ ops[j].call = "delete" /\ ops[j].arg = "IN"
    /\ ops[j].userId = ops[i].userId
    /\ ops[j].result.success
    /\ findUserResponse(responses, ops[j].userId) = Null

\* C9: when the delete call of a toggle-off fails, by a failed result or by
\* rejecting, then as handleStatusClick returns getUserResponse(u) has the
\* status, note and transport that it had before the toggle.
C9_ToggleOffFailureRestores ==
  (/\ event.type = "returned"
   /\ event.kind = "status" /\ event.call = "delete"
   /\ ~event.result.success) =>
    /\ getUserResponse(event.userId).present
    /\ getUserResponse(event.userId).status = event.currentResponse.status
    /\ NoteText(getUserResponse(event.userId))
         = NoteText(event.currentResponse)
    /\ TransportOf(getUserResponse(event.userId))
         = TransportOf(event.currentResponse)

\* The fields of the effective response as a handler defaults them.
EffectiveNote(u) == NoteText(getUserResponse(u))
EffectiveTransport(u) ==
  IF TransportOf(getUserResponse(u)) = "null" THEN "WALKING"
  ELSE TransportOf(getUserResponse(u))

\* C10: the request of every submit call has userId, status, note and
\* transport, and each field the handler does not edit is the user's
\* effective value at the time of the call, the transport being WALKING when
\* the effective response has none.
C10_FullPayload ==
  [][\A i \in 1..MaxOps :
       (/\ ops[i].pc = "unused"
        /\ ops'[i].pc = "awaiting"
        /\ ops'[i].kind \in {"status", "note", "transport"}
        /\ ops'[i].call = "submit") =>
         LET o == ops'[i]
             u == o.userId
             req == o.request
         IN /\ DOMAIN req = {"userId", "status", "note", "transport"}
            /\ req.userId = u
            /\ req.status \in Statuses
            /\ req.transport \in Transports
            /\ req.note # NullNote
            /\ o.kind = "status" => req.status = o.arg
            /\ o.kind = "transport" => req.transport = o.arg
            /\ (o.kind # "status" /\ getUserResponse(u).present) =>
                 req.status = getUserResponse(u).status
            /\ o.kind # "note" => req.note = EffectiveNote(u)
            /\ o.kind # "transport" =>
                 req.transport = EffectiveTransport(u)]_vars

C10_Witness ==
  \E i \in 1..MaxOps :
    /\ ops[i].pc = "awaiting" /\ ops[i].kind = "note"
    /\ ops[i].currentResponse.present
    /\ ops[i].currentResponse.status = "IN"
    /\ ops[i].currentResponse.note = <<"a">>
    /\ ops[i].currentResponse.transport = "RIDING"
    /\ ops[i].request =
         [userId |-> ops[i].userId, status |-> "IN", note |-> <<"b">>,
          transport |-> "RIDING"]

\* No call of handleStatusClick, handleNoteChange or handleTransportChange
\* for user u has started and not returned.
NoEditInFlight(u) ==
  \A j \in 1..MaxOps :
    (InFlight(j) /\ ops[j].kind \in {"status", "note", "transport"}) =>
      ops[j].userId # u

isSubmitting(userId) == submittingResponse = userId

\* C12 as stated, leaving aside the entry that a failed toggle-off restores:
\* when an edit of user u returns, however it ended, and no other edit of u
\* is in flight and no settle timer of u is pending, u has no optimistic
\* entry.
C12_NoStaleEntry ==
  (/\ event.type = "returned"
   /\ event.kind \in {"status", "note", "transport"}
   /\ ~(event.kind = "status" /\ event.call = "delete")
   /\ NoEditInFlight(event.userId)
   /\ timers[event.userId] = 0) =>
    ~optimisticResponses[event.userId].present

\* C13 as stated: when an edit returns from a failed submit call, the user
\* has no optimistic entry, the hook's error is set and the user is not
\* marked as submitting.
C13_FailedSubmitReconciled ==
  (/\ event.type = "returned"
   /\ event.kind \in {"status", "note", "transport"}
   /\ event.call = "submit"
   /\ ~event.result.success
   /\ NoEditInFlight(event.userId)) =>
    /\ ~optimisticResponses[event.userId].present
    /\ error # "null"
    /\ ~isSubmitting(event.userId)

\* C14 as stated: while a call of one of the three handlers for user u is
\* in flight, isSubmitting(u) is true.
C14_MarkedWhileInFlight ==
  \A i \in 1..MaxOps :
    (InFlight(i) /\ ops[i].kind \in {"status", "note", "transport"}) =>
      isSubmitting(ops[i].userId)

\* C15: a user for whom no edit is in flight is not marked as submitting,
\* however the edits for that user ended.
C15_MarkCleared ==
  \A u \in Users : NoEditInFlight(u) => ~isSubmitting(u)

C15_Witness ==
  /\ event.type = "returned"
  /\ event.kind = "status"
  /\ ~event.result.success
  /\ DOMAIN event.result = {"success", "error"}
  /\ error # "null"
  /\ submittingResponse = "null"
  /\ \A j \in 1..MaxOps : ~InFlight(j)

\* C16 as stated: a step of an edit of user a leaves the optimistic entry,
\* the session's response, getUserResponse and isSubmitting of every other
\* user b as they were.
C16_UsersIndependent ==
  [][\A i \in 1..MaxOps, a \in Users, b \in Users :
       (/\ a # b
        /\ ops'[i] # ops[i]
        /\ (OpUser(ops[i]) = a \/ OpUser(ops'[i]) = a)) =>
         /\ optimisticResponses'[b] = optimisticResponses[b]
         /\ findUserResponse(responses', b) = findUserResponse(responses, b)
         /\ getUserResponse(b)' = getUserResponse(b)
         /\ isSubmitting(b)' = isSubmitting(b)]_vars

\* C20 as stated: while the delete call of a toggle-off for a user whose
\* response is in the session is waiting, getUserResponse(u) is null.
C20_ToggleOffShownAtOnce ==
  \A i \in 1..MaxOps :
    (/\ ops[i].pc = "awaiting"
     /\ ops[i].kind = "status" /\ ops[i].call = "delete"
     /\ \A j \in 1..MaxOps : j # i => ~InFlight(j)
     /\ findUserResponse(responses, ops[i].userId).present) =>
      ~getUserResponse(ops[i].userId).present

\* The string a handler puts in the error of its result when its call threw.
CaughtMessages ==
  ErrorMessages \cup {defaultMessage(k) : k \in {"status", "note", "transport"}}

\* C17: a call of handleStatusClick, handleNoteChange or handleTransportChange
\* never ends by raising; it returns a record with a boolean success, which
\* is false with an error message when the underlying call threw, and false
\* when the underlying call returned a failure.
C17_TaggedResult ==
  /\ event.type \in {"none", "returned"}
  /\ (event.type = "returned" /\
      event.kind \in {"status", "note", "transport"}) =>
       /\ "success" \in DOMAIN event.result
       /\ event.result.success \in BOOLEAN
       /\ event.settled = "rejected" =>
            /\ ~event.result.success
            /\ "error" \in DOMAIN event.result
            /\ event.result.error \in CaughtMessages
       /\ event.result.success <=> event.callSucceeded

\* A transport change whose call threw a value that is not an Error has
\* returned a failure carrying the default message.
C17_Witness ==
  /\ event.type = "returned"
  /\ event.kind = "transport"
  /\ event.settled = "rejected"
  /\ event.result = [success |-> FALSE,
                      error |-> "Failed to update transport"]
  /\ error = "Failed to update transport"
  /\ ~optimisticResponses[event.userId].present

\* C11 as stated: when a comment save of the current user has returned after
\* a successful submit and nothing else is in flight, the user's transport
\* is the one the user had when Save was pressed.
C11_CommentKeepsTransport ==
  (/\ event.type = "returned"
   /\ event.kind = "comment"
   /\ event.callSucceeded
   /\ \A j \in 1..MaxOps : ~InFlight(j)
   /\ ~optimisticResponses[event.userId].present) =>
    TransportOf(getUserResponse(event.userId)) =
      TransportOf(event.currentResponse)

\* C25: apiRequest calls fetch at most maxRetries + 1 = 5 times and has ended
\* once it has made the fifth call; when it ends by throwing, the error it
\* throws is the error of the last call made.
C25_EndsWithLastError ==
  /\ Len(attempts) <= maxRetries + 1
  /\ Len(attempts) = maxRetries + 1 => rpc = "done"
  /\ outcome.kind = "threw" =>
       /\ rpc = "done"
       /\ attempts # <<>>
       /\ attempts[Len(attempts)].kind # "ok"
       /\ outcome.error.message = attempts[Len(attempts)].message
       /\ lastError = [thrown |-> TRUE,
                       message |-> attempts[Len(attempts)].message]

\* Five calls were made, the first and the last failed with different
\* errors, and the request threw.
C25_Witness ==
  /\ outcome.kind = "threw"
  /\ Len(attempts) = maxRetries + 1
  /\ attempts[1].message # attempts[Len(attempts)].message
  /\ attempts[1].kind = "throw"
  /\ attempts[Len(attempts)].kind = "http"

\* The positions of session.responses that hold a response of user u.
RepositoryPositions(u) == {k \in 1..Len(responses) : responses[k].user.id = u}

\* The call i has just been confirmed by the server.
Confirmed(i) == ops[i].pc = "resolved" /\ ops[i].result.success

\* C22: the session holds at most one response per user; when a submit call
\* has been confirmed the session holds for its user exactly the response
\* the server returned, and when a delete call has been confirmed it holds
\* none for its user.
C22_OneResponsePerUser ==
  /\ \A u \in Users : Cardinality(RepositoryPositions(u)) <= 1
  /\ \A i \in 1..MaxOps :
       Confirmed(i) =>
         IF ops[i].call = "submit"
           THEN /\ Cardinality(RepositoryPositions(ops[i].userId)) = 1
                /\ findUserResponse(responses, ops[i].userId) =
                     ops[i].result.response
           ELSE RepositoryPositions(ops[i].userId) = {}

\* A submit and a delete have been confirmed for a user who had a response
\* in the fetched session.
C22_Witness ==
  /\ \E i \in 1..MaxOps :
       /\ ops[i].pc = "returned"
  /\ \E i \in 1..MaxOps :
       /\ Confirmed(i)
       /\ ops[i].call = "delete"
       /\ ops[i].currentResponse.present
       /\ ops[i].currentResponse.id = <<"response", ops[i].userId>>
       /\ RepositoryPositions(ops[i].userId) = {}

\* The step is the settling of a server call: it resolves or rejects.
Settles(i) == ops[i].pc = "awaiting" /\ ops'[i].pc \in {"resolved", "rejected"}

\* C23: a step changes session.responses only if it is the confirmation of a
\* server call, and then only the response of that call's user; the
\* optimistic steps, the failing calls, the continuations and the settle
\* timer leave session.responses as it is.
C23_RepositoryFrame ==
  [][/\ responses' # responses =>
         \E i \in 1..MaxOps :
           /\ Settles(i)
           /\ ops'[i].pc = "resolved"
           /\ ops'[i].result.success
           /\ \A b \in Users :
                b # ops[i].userId =>
                  /\ findUserResponse(responses', b) =
                       findUserResponse(responses, b)
                  /\ Cardinality({k \in 1..Len(responses') :
                                    responses'[k].user.id = b}) =
                     Cardinality(RepositoryPositions(b))
     /\ \A i \in 1..MaxOps :
          (Settles(i) /\ ~(ops'[i].pc = "resolved" /\ ops'[i].result.success))
            => responses' = responses]_vars

\* After a call that failed, a submit for u2 has been confirmed while the
\* session holds a response of u1, which is still there.
C23_Witness ==
  /\ sessionsError # "null"
  /\ \E i \in 1..MaxOps :
       /\ Confirmed(i)
       /\ ops[i].call = "submit"
       /\ ops[i].userId = "u2"
       /\ Cardinality(RepositoryPositions("u1")) = 1
       /\ Cardinality(RepositoryPositions("u2")) = 1

\* C29: handleNoteChange or handleTransportChange for a user without an
\* effective response issues one submit call with status UNDECIDED, with
\* transport WALKING for a note and an empty note for a transport; when the
\* call is confirmed the session holds a response with status UNDECIDED for
\* the user.
C29_NoResponseSubmitsUndecided ==
  [][\A i \in 1..MaxOps, u \in Users :
       /\ (/\ ops[i].pc = "unused"
           /\ ops'[i].pc = "awaiting"
           /\ ops'[i].kind \in {"note", "transport"}
           /\ ops'[i].userId = u
           /\ ~getUserResponse(u).present) =>
            /\ ops'[i].call = "submit"
            /\ ops'[i].request.userId = u
            /\ ops'[i].request.status = "UNDECIDED"
            /\ ops'[i].kind = "note" =>
                 /\ ops'[i].request.transport = "WALKING"
                 /\ ops'[i].request.note = trim(ops'[i].arg)
            /\ ops'[i].kind = "transport" =>
                 /\ ops'[i].request.note = <<>>
                 /\ ops'[i].request.transport = ops'[i].arg
       /\ (/\ Settles(i)
           /\ ops[i].kind \in {"note", "transport"}
           /\ ops[i].userId = u
           /\ ~ops[i].currentResponse.present
           /\ ops'[i].pc = "resolved"
           /\ ops'[i].result.success) =>
            /\ findUserResponse(responses', u).present
            /\ findUserResponse(responses', u).status = "UNDECIDED"]_vars

\* A note change for a user without a response has been confirmed and the
\* session holds an UNDECIDED response for that user.
C29_Witness ==
  \E i \in 1..MaxOps :
    /\ Confirmed(i)
    /\ ops[i].kind = "note"
    /\ ~ops[i].currentResponse.present
    /\ findUserResponse(responses, ops[i].userId).present
    /\ findUserResponse(responses, ops[i].userId).status = "UNDECIDED"
    /\ findUserResponse(responses, ops[i].userId).transport = "WALKING"

\* No handler call has started after call i.
LatestCall(i) == \A j \in 1..MaxOps : j > i => ops[j].pc = "unused"

\* C24 as stated, for a transport change after whose start no other handler
\* call has started: when it returns after a confirmed submit the user's
\* optimistic entry is present, with the settle timer pending; when it
\* returns after a failed or rejected submit the entry is absent.
C24_EntryUntilSettleDelay ==
  (event.type = "returned" /\ event.kind = "transport" /\
   LatestCall(event.op)) =>
    IF event.result.success
      THEN /\ optimisticResponses[event.userId].present
           /\ timers[event.userId] > 0
      ELSE ~optimisticResponses[event.userId].present

\* The optimistic entry that the optimistic step of call o has written.
WrittenEntry(o) == Entry(o.request.status, o.request.note, o.request.transport)

\* Call o has written an optimistic entry and is waiting for its submit call.
SetAwaiting(o) ==
  /\ o.pc = "awaiting"
  /\ o.kind \in {"status", "note", "transport"}
  /\ o.call = "submit"

\* C21 as stated: while a later edit of user u that has written u's
\* optimistic entry is waiting for its submit call, the return of an earlier
\* edit of u leaves the entry as the later edit wrote it.
C21_LatestSetKept ==
  [][\A i \in 1..MaxOps, j \in 1..MaxOps, u \in Users :
       (/\ i < j
        /\ ops[i].pc \in {"resolved", "rejected"}
        /\ ops[i].kind \in {"status", "note", "transport"}
        /\ ops[i].userId = u
        /\ ops'[i].pc = "returned"
        /\ SetAwaiting(ops[j])
        /\ ops[j].userId = u
        /\ optimisticResponses[u] = WrittenEntry(ops[j])) =>
         optimisticResponses'[u] = WrittenEntry(ops[j])]_vars

\* C26 as stated: when the settle timer of a transport change of user u
\* fires while the latest edit of u, started after that transport change,
\* has written u's optimistic entry and is waiting for its submit call, the
\* entry stays and getUserResponse(u) is unchanged.
C26_TimerOwnEntry ==
  [][\A j \in 1..MaxOps, u \in Users :
       (/\ timers'[u] < timers[u]
        /\ LatestCall(j)
        /\ SetAwaiting(ops[j])
        /\ ops[j].userId = u
        /\ optimisticResponses[u] = WrittenEntry(ops[j])) =>
         /\ optimisticResponses'[u] = WrittenEntry(ops[j])
         /\ getUserResponse(u)' = getUserResponse(u)]_vars

\* getUserResponse(u) shows the status, note and transport of request req.
ShowsRequest(u, req) ==
  /\ getUserResponse(u).present
  /\ getUserResponse(u).status = req.status
  /\ NoteText(getUserResponse(u)) = req.note
  /\ getUserResponse(u).transport = req.transport

\* The same in the state after the step.
ShowsRequestAfter(u, req) ==
  /\ getUserResponse(u)'.present
  /\ getUserResponse(u)'.status = req.status
  /\ NoteText(getUserResponse(u)') = req.note
  /\ getUserResponse(u)'.transport = req.transport

\* Call o is a status set or change, or a note change, that has not failed.
StatusOrNoteSubmit(o) ==
  /\ o.pc \in {"awaiting", "resolved"}
  /\ o.kind \in {"status", "note"}
  /\ o.call = "submit"
  /\ o.pc = "resolved" => o.result.success

\* The step touches user u: a handler call of u starts, settles or returns,
\* or a settle timer of u fires.
TouchesUser(u) ==
  \/ timers'[u] # timers[u]
  \/ \E j \in 1..MaxOps :
       /\ ops'[j] # ops[j]
       /\ (OpUser(ops[j]) = u \/ OpUser(ops'[j]) = u)

\* C27: the optimistic step of a status set or change or of a note change
\* for user u makes getUserResponse(u) show the requested values; every
\* step of that call up to and including its return after a confirmed
\* submit keeps them shown, unless the step belongs to another edit of u;
\* and no step that does not touch u changes getUserResponse(u).
C27_NoRevert ==
  [][\A u \in Users :
       /\ \A i \in 1..MaxOps :
            /\ (/\ ops[i].pc = "unused"
                /\ StatusOrNoteSubmit(ops'[i])
                /\ ops'[i].userId = u) =>
                 ShowsRequestAfter(u, ops'[i].request)
            /\ (/\ StatusOrNoteSubmit(ops[i])
                /\ ops[i].userId = u
                /\ ShowsRequest(u, ops[i].request)
                /\ ~OtherEditStep(i, u)
                /\ (StatusOrNoteSubmit(ops'[i]) \/
                    (ops[i].pc = "resolved" /\ ops'[i].pc = "returned"))) =>
                 ShowsRequestAfter(u, ops[i].request)
       /\ ~TouchesUser(u) => getUserResponse(u)' = getUserResponse(u)]_vars

\* A note change of a user who had another note has returned after a
\* confirmed submit; nothing is in flight, the entry is cleared and the new
\* note is shown.
C27_Witness ==
  /\ event.type = "returned"
  /\ event.kind = "note"
  /\ event.result.success
  /\ event.currentResponse.present
  /\ event.currentResponse.note = <<"a">>
  /\ \A j \in 1..MaxOps : ~InFlight(j)
  /\ ~optimisticResponses[event.userId].present
  /\ ShowsRequest(event.userId, event.request)
  /\ event.request.note = <<"b">>

\* The users whose effective response has the given status.
UsersWithStatus(status) ==
  {u \in Users : getUserResponse(u).present /\
                 getUserResponse(u).status = status}

\* C30: getResponseStats counts every user once, by the status of the user's
\* effective response, and total is the number of users with an optimistic
\* entry or a response in the session.
C30_StatsByEffectiveResponse ==
  LET stats == getResponseStats IN
  /\ stats.inCount = Cardinality(UsersWithStatus("IN"))
  /\ stats.outCount = Cardinality(UsersWithStatus("OUT"))
  /\ stats.undecidedCount = Cardinality(UsersWithStatus("UNDECIDED"))
  /\ stats.total =
       Cardinality({u \in Users : optimisticResponses[u].present \/
                                  RepositoryPositions(u) # {}})
  /\ stats.inCount + stats.outCount + stats.undecidedCount = stats.total

\* u1 has a response IN in the session and an optimistic entry OUT, u2 has
\* only an optimistic entry IN: one IN, one OUT, two in total.
C30_Witness ==
  /\ RepositoryPositions("u1") # {}
  /\ findUserResponse(responses, "u1").status = "IN"
  /\ optimisticResponses["u1"].present
  /\ optimisticResponses["u1"].status = "OUT"
  /\ RepositoryPositions("u2") = {}
  /\ optimisticResponses["u2"].present
  /\ optimisticResponses["u2"].status = "IN"
  /\ getResponseStats = [inCount |-> 1, outCount |-> 1,
                         undecidedCount |-> 0, total |-> 2]

\* C28 as stated: when a fetchSessions call resolves, a response of user u
\* that a submit confirmed after the call was made (the session's response
\* of u differs from the fetched one) is still the session's response of u.
C28_ConfirmedSurvivesFetch ==
  [][\A u \in Users :
       (/\ fetch.pc = "awaiting"
        /\ fetch'.pc = "idle"
        /\ sessionsError' = sessionsError
        /\ findUserResponse(responses, u).present
        /\ findUserResponse(responses, u) # findUserResponse(fetch.data, u)) =>
         findUserResponse(responses', u) = findUserResponse(responses, u)]_vars

====
